---- MODULE Spec2Model ----
(***************************************************************************)
(* The useAgUiStream hook of observability-assistant-ui                    *)
(* (src/src/hooks/useAgUiStream.ts): the reducer that turns ag-ui protocol *)
(* events into the chat transcript, the sendMessage request flow and the   *)
(* SSE line decoder.  The file holds two evolutions of the hook: the       *)
(* HttpAgent/subscriber one (lines 1-425) and the fetch/SSE one (lines     *)
(* 427-867); `variant` says which one a behaviour runs.                    *)
(*                                                                         *)
(* Conventions.  A JavaScript string built by concatenation (message       *)
(* content, tool args) is a sequence of tokens, "+" is \o.  An id built as *)
(* `kind-${Date.now()}` is the pair <<kind, clock>>.  A nullable value is  *)
(* a sequence of length 0 (null) or 1.  Objects that the code mutates in   *)
(* place and shares between its refs and the published message arrays      *)
(* (content blocks, steps, tool calls) live in `heap`; arrays hold their   *)
(* addresses.                                                              *)
(***************************************************************************)
EXTENDS Integers, Sequences, FiniteSets, TLC

\* ---------------------------------------------------------------- bounds
\* Events delivered to the reducer in one behaviour.
MaxEvents == 4
\* Events of one behaviour of the ordering specification.
MaxOrderingEvents == 6
\* Calls of sendMessage in one behaviour.
MaxSends == 2
\* The millisecond clock runs over 0..MaxClock.
MaxClock == 1

\* Events of one behaviour of the run specification.
MaxRunEvents == 6

\* ---------------------------------------------------------------- values
Null == <<>>
Some(x) == <<x>>
Val(r) == r[1]
\* An optional field that is not set (JavaScript undefined).
Undefined == "undefined"

Variants == {"subscriber", "fetch"}

\* ------------------------------------------------------------ hook state
VARIABLES
  variant,                \* which evolution of the hook runs
  messages,               \* useState: ChatMessage[]
  isStreaming,            \* useState: request outstanding
  runActive,              \* useState: run semantically active
  error,                  \* useState: string | null
  currentMessageRef,      \* useRef: ChatMessage | null
  toolCallsRef,           \* useRef: Map<string, ToolCall>, in insertion order
  stepsRef,               \* useRef: Map<string, Step>, in insertion order
  contentBlocksRef,       \* useRef: ContentBlock[]
  currentTextBlockIdRef,  \* useRef: string | null
  hasStepsBlockRef,       \* useRef: boolean
  hasToolsBlockRef,       \* useRef: boolean
  heap,                   \* the objects shared by reference
  now,                    \* Date.now()
  requests,               \* the sendMessage calls made so far
  nEvents,                \* events delivered so far
  last                    \* the operation that made the last step

hookVars == <<messages, isStreaming, runActive, error, currentMessageRef,
              toolCallsRef, stepsRef, contentBlocksRef, currentTextBlockIdRef,
              hasStepsBlockRef, hasToolsBlockRef, heap>>
vars == <<variant, hookVars, now, requests, nEvents, last>>

\* The hook's state as one record, the argument and result of the handlers.
Hook ==
  [messages |-> messages, isStreaming |-> isStreaming, runActive |-> runActive,
   error |-> error, currentMessageRef |-> currentMessageRef,
   toolCallsRef |-> toolCallsRef, stepsRef |-> stepsRef,
   contentBlocksRef |-> contentBlocksRef,
   currentTextBlockIdRef |-> currentTextBlockIdRef,
   hasStepsBlockRef |-> hasStepsBlockRef, hasToolsBlockRef |-> hasToolsBlockRef,
   heap |-> heap]

Commit(s) ==
  /\ messages' = s.messages
  /\ isStreaming' = s.isStreaming
  /\ runActive' = s.runActive
  /\ error' = s.error
  /\ currentMessageRef' = s.currentMessageRef
  /\ toolCallsRef' = s.toolCallsRef
  /\ stepsRef' = s.stepsRef
  /\ contentBlocksRef' = s.contentBlocksRef
  /\ currentTextBlockIdRef' = s.currentTextBlockIdRef
  /\ hasStepsBlockRef' = s.hasStepsBlockRef
  /\ hasToolsBlockRef' = s.hasToolsBlockRef
  /\ heap' = s.heap

\* ---------------------------------------------------------------- helpers
\* { ...m, ...u }
Merge(m, u) ==
  [k \in (DOMAIN m) \cup (DOMAIN u) |-> IF k \in DOMAIN u THEN u[k] ELSE m[k]]

\* Array.prototype.findIndex on ids; 0 stands for JavaScript's -1.
FindIndex(msgs, id) ==
  IF \E i \in 1..Len(msgs) : msgs[i].id = id
  THEN CHOOSE i \in 1..Len(msgs) :
         /\ msgs[i].id = id
         /\ \A j \in 1..(i - 1) : msgs[j].id # id
  ELSE 0

\* Map.get(key): the address of the entry with that key, 0 when absent.
MapGet(h, map, key) ==
  IF \E i \in 1..Len(map) : h[map[i]].id = key
  THEN map[CHOOSE i \in 1..Len(map) : h[map[i]].id = key]
  ELSE 0

\* Map.set(key, value): an existing key keeps its place in the insertion order.
MapSet(h, map, key, addr) ==
  IF \E i \in 1..Len(map) : h[map[i]].id = key
  THEN [i \in 1..Len(map) |-> IF h[map[i]].id = key THEN addr ELSE map[i]]
  ELSE Append(map, addr)

\* contentBlocksRef.current.find(b => b.type === 'text' && b.id === id):
\* the first such block, 0 when there is none.
FindTextBlock(h, blocks, id) ==
  LET hit(i) == h[blocks[i]].type = "text" /\ h[blocks[i]].id = id
  IN IF \E i \in 1..Len(blocks) : hit(i)
     THEN blocks[CHOOSE i \in 1..Len(blocks) :
                   hit(i) /\ \A j \in 1..(i - 1) : ~hit(j)]
     ELSE 0

\* statusPriority[status] ?? 0
statusPriority(status) ==
  CASE status = "pending" -> 0
    [] status = "in-progress" -> 1
    [] status = "done" -> 2
    [] status = "failed" -> 3
    [] OTHER -> 0

\* The refs as the code resets them for the next run.
ResetRefs(s) ==
  [s EXCEPT !.currentMessageRef = Null, !.toolCallsRef = <<>>,
            !.stepsRef = <<>>, !.contentBlocksRef = <<>>,
            !.currentTextBlockIdRef = Null, !.hasStepsBlockRef = FALSE,
            !.hasToolsBlockRef = FALSE]

\* An ensureAssistantMessage that keeps the refs of the message before.
ensureAssistantMessage_KeepsRefs(s, t) ==
  IF s.currentMessageRef # Null THEN s
  ELSE LET newMessage ==
             [id |-> <<"assistant", t>>, role |-> "assistant", content |-> <<>>,
              isStreaming |-> TRUE, toolCalls |-> <<>>, steps |-> <<>>,
              contentBlocks |-> <<>>]
       IN [s EXCEPT !.currentMessageRef = Some(newMessage),
                    !.messages = Append(@, newMessage)]

\* ----------------------------------------------- message creation, publish
ensureAssistantMessage(s, t) ==
  IF s.currentMessageRef # Null THEN s
  ELSE LET newMessage ==
             [id |-> <<"assistant", t>>, role |-> "assistant", content |-> <<>>,
              isStreaming |-> TRUE, toolCalls |-> <<>>, steps |-> <<>>,
              contentBlocks |-> <<>>]
       IN [ResetRefs(s) EXCEPT !.currentMessageRef = Some(newMessage),
                               !.messages = Append(@, newMessage)]

\* A publish that replaces the last entry of the list, whatever its id.
updateCurrentMessage_ByPosition(s, updates) ==
  IF s.currentMessageRef = Null THEN s
  ELSE LET updatedMessage == Merge(Val(s.currentMessageRef), updates)
       IN [s EXCEPT !.currentMessageRef = Some(updatedMessage),
                    !.messages = [@ EXCEPT ![Len(@)] = updatedMessage]]

updateCurrentMessage(s, updates) ==
  IF s.currentMessageRef = Null THEN s
  ELSE LET updatedMessage == Merge(Val(s.currentMessageRef), updates)
           messageIndex == FindIndex(s.messages, updatedMessage.id)
       IN [s EXCEPT !.currentMessageRef = Some(updatedMessage),
                    !.messages = IF messageIndex = 0
                                 THEN Append(@, updatedMessage)
                                 ELSE [@ EXCEPT ![messageIndex] = updatedMessage]]

\* `x || undefined` and `x || y`: undefined and the empty string are falsy.
Falsy(x) == x = Undefined \/ x = ""

\* The steps / tools marker is pushed once per message.
PushStepsBlock(s) ==
  IF s.hasStepsBlockRef THEN s
  ELSE [s EXCEPT !.hasStepsBlockRef = TRUE,
                 !.heap = Append(@, [type |-> "steps", id |-> <<"steps">>]),
                 !.contentBlocksRef = Append(@, Len(s.heap) + 1)]

\* A tool-call-start that appends no tools marker.
PushToolsBlock_Never(s) == [s EXCEPT !.hasToolsBlockRef = TRUE]

PushToolsBlock(s) ==
  IF s.hasToolsBlockRef THEN s
  ELSE [s EXCEPT !.hasToolsBlockRef = TRUE,
                 !.heap = Append(@, [type |-> "tools", id |-> <<"tools">>]),
                 !.contentBlocksRef = Append(@, Len(s.heap) + 1)]

\* A new Step { id, name, status: 'pending' } put into stepsRef.
NewStep(s, stepId, stepName) ==
  [s EXCEPT !.heap = Append(@, [type |-> "step", id |-> stepId, name |-> stepName,
                                status |-> "pending", activeForm |-> Undefined]),
            !.stepsRef = MapSet(s.heap, @, stepId, Len(s.heap) + 1)]

\* ------------------------------------------------------------ the reducer
\* Handlers that read the same in both evolutions of the hook carry the
\* subscriber's callback names.
onRunStartedEvent(s) == [s EXCEPT !.runActive = TRUE]

\* A text-start that opens a message of its own for every text segment.
onTextMessageStartEvent_NewMessage(s, t) ==
  LET s1 == ensureAssistantMessage([s EXCEPT !.currentMessageRef = Null], t)
      textBlockId == <<"text", t>>
      s2 == [s1 EXCEPT !.currentTextBlockIdRef = Some(textBlockId),
                       !.heap = Append(@, [type |-> "text", id |-> textBlockId,
                                           content |-> <<>>]),
                       !.contentBlocksRef = Append(@, Len(s1.heap) + 1)]
  IN updateCurrentMessage(s2, [contentBlocks |-> s2.contentBlocksRef])

onTextMessageStartEvent(s, t) ==
  LET s1 == ensureAssistantMessage(s, t)
      textBlockId == <<"text", t>>
      s2 == [s1 EXCEPT !.currentTextBlockIdRef = Some(textBlockId),
                       !.heap = Append(@, [type |-> "text", id |-> textBlockId,
                                           content |-> <<>>]),
                       !.contentBlocksRef = Append(@, Len(s1.heap) + 1)]
  IN updateCurrentMessage(s2, [contentBlocks |-> s2.contentBlocksRef])

\* A reducer that appends the delta to the flattened content only.
onTextMessageContentEvent_ContentOnly(s, e, t) ==
  LET s1 == ensureAssistantMessage(s, t)
  IN updateCurrentMessage(s1,
       [content |-> Val(s1.currentMessageRef).content \o e.delta,
        contentBlocks |-> s1.contentBlocksRef])

onTextMessageContentEvent(s, e, t) ==
  LET s1 == ensureAssistantMessage(s, t)
      textBlock == IF s1.currentTextBlockIdRef = Null THEN 0
                   ELSE FindTextBlock(s1.heap, s1.contentBlocksRef,
                                      Val(s1.currentTextBlockIdRef))
      s2 == IF textBlock = 0 THEN s1
            ELSE [s1 EXCEPT !.heap[textBlock].content = @ \o e.delta]
  IN updateCurrentMessage(s2,
       [content |-> Val(s2.currentMessageRef).content \o e.delta,
        contentBlocks |-> s2.contentBlocksRef])

\* A text-end that finalizes the message as the end of the run does.
onTextMessageEndEvent_ClosesMessage(s) ==
  ResetRefs(updateCurrentMessage(s, [isStreaming |-> FALSE]))

onTextMessageEndEvent(s) == [s EXCEPT !.currentTextBlockIdRef = Null]

onToolCallStartEvent(s, e, t) ==
  LET s1 == PushToolsBlock(ensureAssistantMessage(s, t))
      s2 == [s1 EXCEPT !.heap = Append(@, [type |-> "tool", id |-> e.toolCallId,
                                           name |-> e.toolCallName, args |-> <<>>,
                                           result |-> Undefined,
                                           isLoading |-> TRUE]),
                       !.toolCallsRef = MapSet(s1.heap, @, e.toolCallId,
                                               Len(s1.heap) + 1)]
  IN updateCurrentMessage(s2, [toolCalls |-> s2.toolCallsRef,
                               contentBlocks |-> s2.contentBlocksRef])

\* A reducer that keeps only the last delta of the arguments.
onToolCallArgsEvent_Overwrite(s, e) ==
  LET toolCall == MapGet(s.heap, s.toolCallsRef, e.toolCallId)
  IN IF toolCall = 0 THEN s
     ELSE updateCurrentMessage([s EXCEPT !.heap[toolCall].args = e.delta],
                               [toolCalls |-> s.toolCallsRef])

onToolCallArgsEvent(s, e) ==
  LET toolCall == MapGet(s.heap, s.toolCallsRef, e.toolCallId)
  IN IF toolCall = 0 THEN s
     ELSE updateCurrentMessage([s EXCEPT !.heap[toolCall].args = @ \o e.delta],
                               [toolCalls |-> s.toolCallsRef])

\* A reducer that opens a message for the end of a call it does not know.
onToolCallEndEvent_EnsuresMessage(s, e) ==
  LET toolCall == MapGet(s.heap, s.toolCallsRef, e.toolCallId)
  IN IF toolCall = 0 THEN ensureAssistantMessage(s, 0)
     ELSE updateCurrentMessage([s EXCEPT !.heap[toolCall].isLoading = FALSE],
                               [toolCalls |-> s.toolCallsRef])

onToolCallEndEvent(s, e) ==
  LET toolCall == MapGet(s.heap, s.toolCallsRef, e.toolCallId)
  IN IF toolCall = 0 THEN s
     ELSE updateCurrentMessage([s EXCEPT !.heap[toolCall].isLoading = FALSE],
                               [toolCalls |-> s.toolCallsRef])

\* A reducer that leaves the loading flag to the end event.
onToolCallResultEvent_KeepsLoading(s, e) ==
  LET toolCall == MapGet(s.heap, s.toolCallsRef, e.toolCallId)
  IN IF toolCall = 0 THEN s
     ELSE updateCurrentMessage([s EXCEPT !.heap[toolCall].result = e.content],
                               [toolCalls |-> s.toolCallsRef])

onToolCallResultEvent(s, e) ==
  LET toolCall == MapGet(s.heap, s.toolCallsRef, e.toolCallId)
  IN IF toolCall = 0 THEN s
     ELSE updateCurrentMessage([s EXCEPT !.heap[toolCall].result = e.content,
                                         !.heap[toolCall].isLoading = FALSE],
                               [toolCalls |-> s.toolCallsRef])

\* A reducer that makes a new pending record at every step-start.
StepStarted_Recreate(s, stepId, stepName, t) ==
  LET s1 == PushStepsBlock(ensureAssistantMessage(s, t))
      s2 == NewStep(s1, stepId, stepName)
  IN updateCurrentMessage(s2, [steps |-> s2.stepsRef,
                               contentBlocks |-> s2.contentBlocksRef])

\* Shared by the subscriber's onStepStartedEvent (stepId = event.stepName) and
\* the fetch reducer's STEP_STARTED case (stepId = event.stepId || stepName).
StepStarted(s, stepId, stepName, t) ==
  LET s1 == PushStepsBlock(ensureAssistantMessage(s, t))
  IN IF MapGet(s1.heap, s1.stepsRef, stepId) # 0 THEN s1
     ELSE LET s2 == NewStep(s1, stepId, stepName)
          IN updateCurrentMessage(s2, [steps |-> s2.stepsRef,
                                       contentBlocks |-> s2.contentBlocksRef])

onStepStartedEvent(s, e, t) == StepStarted(s, e.stepName, e.stepName, t)

\* A gate that protects failed steps only.
PriorityGate_FailedOnly(newPriority, currentPriority) ==
  currentPriority < 3 \/ newPriority >= currentPriority

\* A gate that lets every status update through.
PriorityGate_Always(newPriority, currentPriority) == TRUE

\* The gate of a status update: applied when the new priority is not lower.
PriorityGate(newPriority, currentPriority) == newPriority >= currentPriority

\* The step of that id, created as pending when stepsRef has none.
EnsureStep(s, stepId, stepName, t) ==
  IF MapGet(s.heap, s.stepsRef, stepId) # 0 THEN s
  ELSE NewStep(PushStepsBlock(ensureAssistantMessage(s, t)), stepId, stepName)

\* A subscriber that drops the step-finish of an unseen step.
onStepFinishedEvent_DropUnseen(s, e, t) ==
  LET step == MapGet(s.heap, s.stepsRef, e.stepName)
  IN IF step = 0 THEN s
     ELSE IF PriorityGate(statusPriority("done"), statusPriority(s.heap[step].status))
          THEN updateCurrentMessage(
                 [s EXCEPT !.heap[step].status = "done",
                           !.heap[step].activeForm = Undefined],
                 [steps |-> s.stepsRef, contentBlocks |-> s.contentBlocksRef])
          ELSE s

onStepFinishedEvent(s, e, t) ==
  LET stepId == e.stepName
      s1 == EnsureStep(s, stepId, e.stepName, t)
      step == MapGet(s1.heap, s1.stepsRef, stepId)
      currentPriority == statusPriority(s1.heap[step].status)
      donePriority == statusPriority("done")
  IN IF PriorityGate(donePriority, currentPriority)
     THEN updateCurrentMessage(
            [s1 EXCEPT !.heap[step].status = "done",
                       !.heap[step].activeForm = Undefined],
            [steps |-> s1.stepsRef, contentBlocks |-> s1.contentBlocksRef])
     ELSE s1

\* A step_update that keeps the status as the server spells it.
newStatus_Unmapped(status) == status

\* The status of a step_update: the server writes in_progress, the step
\* carries in-progress.
newStatus(status) == IF status = "in_progress" THEN "in-progress" ELSE status

\* The body of the step_update branch: the step is created when the registry
\* has none under the name, then the status is applied under the gate.
step_update(s, value, t) ==
  LET stepId == value.stepName
      s1 == EnsureStep(s, stepId, value.stepName, t)
      step == MapGet(s1.heap, s1.stepsRef, stepId)
      currentPriority == statusPriority(s1.heap[step].status)
      newPriority == statusPriority(newStatus(value.status))
  IN IF PriorityGate(newPriority, currentPriority)
     THEN updateCurrentMessage(
            [s1 EXCEPT !.heap[step].status = newStatus(value.status),
                       !.heap[step].activeForm =
                         IF Falsy(value.activeForm) THEN Undefined
                         ELSE value.activeForm],
            [steps |-> s1.stepsRef, contentBlocks |-> s1.contentBlocksRef])
     ELSE s1

\* A handler that takes every custom event for a step_update.
onCustomEvent_AnyName(s, e, t) == step_update(s, e.value, t)

\* The custom event, the same in both evolutions: only step_update is handled.
onCustomEvent(s, e, t) ==
  IF e.name # "step_update" THEN s ELSE step_update(s, e.value, t)

onRunErrorEvent(s, e, t) ==
  LET s1 == updateCurrentMessage(ensureAssistantMessage(s, t),
              [isStreaming |-> FALSE,
               error |-> [title |-> "Error", body |-> e.message]])
  IN [ResetRefs(s1) EXCEPT !.error = Some(e.message), !.runActive = FALSE,
                           !.isStreaming = FALSE]

onRunFinishedEvent(s) ==
  LET s1 == updateCurrentMessage(s, [isStreaming |-> FALSE])
  IN [ResetRefs(s1) EXCEPT !.runActive = FALSE, !.isStreaming = FALSE]

\* The fetch reducer's own step cases.
handleEvent_STEP_STARTED(s, e, t) ==
  StepStarted(s, IF Falsy(e.stepId) THEN e.stepName ELSE e.stepId, e.stepName, t)

handleEvent_STEP_FINISHED(s, e) ==
  LET stepId == IF Falsy(e.stepId) THEN e.stepName ELSE e.stepId
      step == MapGet(s.heap, s.stepsRef, stepId)
  IN IF step # 0 /\ s.heap[step].status # "failed"
     THEN updateCurrentMessage(
            [s EXCEPT !.heap[step].status = "done",
                      !.heap[step].activeForm = Undefined],
            [steps |-> s.stepsRef])
     ELSE s

\* The fetch evolution's switch over event.type; a type with no case falls
\* through.
handleEvent(s, e, t) ==
  CASE e.type = "RUN_STARTED" -> onRunStartedEvent(s)
    [] e.type = "TEXT_MESSAGE_START" -> onTextMessageStartEvent(s, t)
    [] e.type = "TEXT_MESSAGE_CONTENT" -> onTextMessageContentEvent(s, e, t)
    [] e.type = "TEXT_MESSAGE_END" -> onTextMessageEndEvent(s)
    [] e.type = "TOOL_CALL_START" -> onToolCallStartEvent(s, e, t)
    [] e.type = "TOOL_CALL_ARGS" -> onToolCallArgsEvent(s, e)
    [] e.type = "TOOL_CALL_END" -> onToolCallEndEvent(s, e)
    [] e.type = "TOOL_CALL_RESULT" -> onToolCallResultEvent(s, e)
    [] e.type = "STEP_STARTED" -> handleEvent_STEP_STARTED(s, e, t)
    [] e.type = "STEP_FINISHED" -> handleEvent_STEP_FINISHED(s, e)
    [] e.type = "CUSTOM" -> onCustomEvent(s, e, t)
    [] e.type = "RUN_ERROR" -> onRunErrorEvent(s, e, t)
    [] e.type = "RUN_FINISHED" -> onRunFinishedEvent(s)
    [] OTHER -> s

\* The subscriber evolution: HttpAgent calls the callback of the event's type;
\* a type with no callback does nothing.
createSubscriber(s, e, t) ==
  CASE e.type = "RUN_STARTED" -> onRunStartedEvent(s)
    [] e.type = "TEXT_MESSAGE_START" -> onTextMessageStartEvent(s, t)
    [] e.type = "TEXT_MESSAGE_CONTENT" -> onTextMessageContentEvent(s, e, t)
    [] e.type = "TEXT_MESSAGE_END" -> onTextMessageEndEvent(s)
    [] e.type = "TOOL_CALL_START" -> onToolCallStartEvent(s, e, t)
    [] e.type = "TOOL_CALL_ARGS" -> onToolCallArgsEvent(s, e)
    [] e.type = "TOOL_CALL_END" -> onToolCallEndEvent(s, e)
    [] e.type = "TOOL_CALL_RESULT" -> onToolCallResultEvent(s, e)
    [] e.type = "STEP_STARTED" -> onStepStartedEvent(s, e, t)
    [] e.type = "STEP_FINISHED" -> onStepFinishedEvent(s, e, t)
    [] e.type = "CUSTOM" -> onCustomEvent(s, e, t)
    [] e.type = "RUN_ERROR" -> onRunErrorEvent(s, e, t)
    [] e.type = "RUN_FINISHED" -> onRunFinishedEvent(s)
    [] OTHER -> s

Reduce(v, s, e, t) ==
  IF v = "fetch" THEN handleEvent(s, e, t) ELSE createSubscriber(s, e, t)

\* ----------------------------------------------------------------- events
Deltas == {<<"A">>, <<"B">>}
StepNames == {"s1", "s2"}
ToolIds == {"t1", "t2"}

EvRunStarted == [type |-> "RUN_STARTED"]
EvRunFinished == [type |-> "RUN_FINISHED"]
EvRunError == [type |-> "RUN_ERROR", message |-> "boom"]
EvTextStart == [type |-> "TEXT_MESSAGE_START"]
EvTextContent(d) == [type |-> "TEXT_MESSAGE_CONTENT", delta |-> d]
EvTextEnd == [type |-> "TEXT_MESSAGE_END"]
EvToolStart(id) == [type |-> "TOOL_CALL_START", toolCallId |-> id, toolCallName |-> "get_x"]
EvToolArgs(id, d) == [type |-> "TOOL_CALL_ARGS", toolCallId |-> id, delta |-> d]
EvToolEnd(id) == [type |-> "TOOL_CALL_END", toolCallId |-> id]
EvToolResult(id, c) == [type |-> "TOOL_CALL_RESULT", toolCallId |-> id, content |-> c]
EvStepStarted(n, id) == [type |-> "STEP_STARTED", stepName |-> n, stepId |-> id]
EvStepFinished(n, id) == [type |-> "STEP_FINISHED", stepName |-> n, stepId |-> id]
EvStepUpdate(n, st, af) ==
  [type |-> "CUSTOM", name |-> "step_update",
   value |-> [stepName |-> n, status |-> st, activeForm |-> af]]

\* Events the reducers have no branch for, and a custom event that is no
\* step_update though it carries the payload of one.
UnknownTypes == {"STATE_SNAPSHOT", "STATE_DELTA", "MESSAGES_SNAPSHOT", "RAW"}
EvUnknown(type) == [type |-> type]
EvCustomOther ==
  [type |-> "CUSTOM", name |-> "progress",
   value |-> [stepName |-> "s1", status |-> "done", activeForm |-> Undefined]]

\* ------------------------------------------------------------------ actions
Init ==
  /\ variant \in Variants
  /\ messages = <<>>
  /\ isStreaming = FALSE
  /\ runActive = FALSE
  /\ error = Null
  /\ currentMessageRef = Null
  /\ toolCallsRef = <<>>
  /\ stepsRef = <<>>
  /\ contentBlocksRef = <<>>
  /\ currentTextBlockIdRef = Null
  /\ hasStepsBlockRef = FALSE
  /\ hasToolsBlockRef = FALSE
  /\ heap = <<>>
  /\ now = 0
  /\ requests = <<>>
  /\ nEvents = 0
  /\ last = [op |-> "init"]

Reading == {r \in 1..Len(requests) : requests[r].pc = "reading"}

\* The message sendMessage makes of the user's text.
userMessage(t) == [id |-> <<"user", t>>, role |-> "user", content |-> <<"hi">>]

\* A request that carries the messages as the transcript holds them.
agUiMessages_Whole(msgs, t) == Append(msgs, userMessage(t))

\* The messages field of the request: the transcript and the new user
\* message, each reduced to id, role and content.
agUiMessages(msgs, t) ==
  LET all == Append(msgs, userMessage(t))
  IN [i \in 1..Len(all) |->
        [id |-> all[i].id, role |-> all[i].role, content |-> all[i].content]]

\* sendMessage up to its first await: the user message is appended and the
\* flags are set.
sendMessageStart(s, t) ==
  [s EXCEPT !.messages = Append(@, userMessage(t)),
            !.isStreaming = TRUE,
            !.error = Null]

\* ChatWindow.handleSend (the send button acts only while no request is
\* outstanding) calls sendMessage.  A user turn takes more than a millisecond,
\* so the clock has moved since the hook last did anything and React has
\* rendered: the `messages` the callback closes over are the transcript.
\* `bodies` are the response bodies the server may answer with; the request remembers the hook's state
\* it started from and the messages it sent.
SendMessage(bodies) ==
  /\ ~isStreaming
  /\ Len(requests) < MaxSends
  /\ last.op \in {"init", "tick"}
  /\ Commit(sendMessageStart(Hook, now))
  /\ \E body \in bodies :
       requests' = Append(requests,
                          [pc |-> "reading", log |-> <<>>, turn |-> Len(messages) + 1,
                           at |-> now, body |-> body, pos |-> 0, pending |-> <<>>,
                           buffer |-> <<>>,
                           start |-> sendMessageStart(Hook, now),
                           sent |-> agUiMessages(messages, now)])
  /\ last' = [op |-> "sendMessage"]
  /\ UNCHANGED <<variant, now, nEvents>>

\* A response whose bytes the specification does not follow: its events are
\* delivered one at a time.
NoBody == {<<>>}

\* One event of request r's response reaches the reducer.  `keep` says whether
\* the request keeps a log of its events.
Deliver(r, e, max, keep) ==
  /\ r \in Reading
  /\ nEvents < max
  /\ Commit(Reduce(variant, Hook, e, now))
  /\ nEvents' = nEvents + 1
  /\ requests' = IF keep THEN [requests EXCEPT ![r].log = Append(@, e)] ELSE requests
  /\ last' = [op |-> "event", event |-> e, req |-> r]
  /\ UNCHANGED <<variant, now>>

\* The millisecond clock advances.
Tick ==
  /\ now < MaxClock
  /\ now' = now + 1
  /\ last' = [op |-> "tick"]
  /\ UNCHANGED <<variant, hookVars, requests, nEvents>>

\* reader.read() reports done once the body is read (the subscriber
\* evolution: runAgent resolves): the loop ends and `finally` runs.
StreamClose(r) ==
  /\ r \in Reading
  /\ requests[r].pos = Len(requests[r].body)
  /\ requests' = [requests EXCEPT ![r].pc = "ended"]
  /\ isStreaming' = FALSE
  /\ last' = [op |-> "close", req |-> r]
  /\ UNCHANGED <<variant, messages, runActive, error, currentMessageRef,
                 toolCallsRef, stepsRef, contentBlocksRef, currentTextBlockIdRef,
                 hasStepsBlockRef, hasToolsBlockRef, heap, now, nEvents>>

\* The catch block for an Error that is no AbortError, then `finally`.
CatchError(s, message, t) ==
  LET s1 == updateCurrentMessage(ensureAssistantMessage(s, t),
              [isStreaming |-> FALSE,
               error |-> [title |-> "Request Failed", body |-> message]])
  IN [ResetRefs(s1) EXCEPT !.error = Some(message), !.runActive = FALSE,
                           !.isStreaming = FALSE]

\* fetch rejects, the status is not OK, the body is missing or a read fails.
TransportFailure(r) ==
  /\ r \in Reading
  /\ Commit(CatchError(Hook, "HTTP error", now))
  /\ requests' = [requests EXCEPT ![r].pc = "ended"]
  /\ last' = [op |-> "failure", req |-> r]
  /\ UNCHANGED <<variant, now, nEvents>>

\* The catch block taking an AbortError for a failure.
Abort_ReportsFailure(r) ==
  /\ r \in Reading
  /\ Commit(CatchError(Hook, "The operation was aborted", now))
  /\ requests' = [requests EXCEPT ![r].pc = "ended"]
  /\ last' = [op |-> "abort", req |-> r]
  /\ UNCHANGED <<variant, now, nEvents>>

\* The request is rejected with an AbortError: the catch block skips it and
\* `finally` runs.
Abort(r) ==
  /\ r \in Reading
  /\ requests' = [requests EXCEPT ![r].pc = "ended"]
  /\ isStreaming' = FALSE
  /\ last' = [op |-> "abort", req |-> r]
  /\ UNCHANGED <<variant, messages, runActive, error, currentMessageRef,
                 toolCallsRef, stepsRef, contentBlocksRef, currentTextBlockIdRef,
                 hasStepsBlockRef, hasToolsBlockRef, heap, now, nEvents>>

clearMessages ==
  /\ messages' = <<>>
  /\ error' = Null
  /\ currentMessageRef' = Null
  /\ toolCallsRef' = <<>>
  /\ stepsRef' = <<>>
  /\ last' = [op |-> "clearMessages"]
  /\ UNCHANGED <<variant, isStreaming, runActive, contentBlocksRef,
                 currentTextBlockIdRef, hasStepsBlockRef, hasToolsBlockRef, heap,
                 now, requests, nEvents>>

\* ---------------------------------------------- the ordering specification
\* One request whose response interleaves text, step and tool-call events.
NextOrdering ==
  \/ SendMessage(NoBody)
  \/ Tick
  \/ \E r \in Reading : Deliver(r, EvTextStart, MaxOrderingEvents, TRUE)
  \/ \E r \in Reading, d \in Deltas :
       Deliver(r, EvTextContent(d), MaxOrderingEvents, TRUE)
  \/ \E r \in Reading : Deliver(r, EvStepStarted("s1", Undefined), MaxOrderingEvents, TRUE)
  \/ \E r \in Reading : Deliver(r, EvToolStart("t1"), MaxOrderingEvents, TRUE)

SpecOrdering == Init /\ [][NextOrdering]_vars

\* -------------------------------------------------- the step specification
\* Step events in any order: starts, finishes and step_update events of two
\* steps, with and without an explicit stepId, and the end of the run.
StepIds == {Undefined, "x1"}
UpdateStatuses == {"in_progress", "failed", "done", "pending"}
ActiveForms == {Undefined, "Working"}

NextSteps ==
  \/ SendMessage(NoBody)
  \/ \E r \in Reading, n \in StepNames, id \in StepIds :
       Deliver(r, EvStepStarted(n, id), MaxEvents, FALSE)
  \/ \E r \in Reading, n \in StepNames, id \in StepIds :
       Deliver(r, EvStepFinished(n, id), MaxEvents, FALSE)
  \/ \E r \in Reading, n \in StepNames, st \in UpdateStatuses, af \in ActiveForms :
       Deliver(r, EvStepUpdate(n, st, af), MaxEvents, FALSE)
  \/ \E r \in Reading : Deliver(r, EvRunFinished, MaxEvents, FALSE)

SpecSteps == Init /\ [][NextSteps]_vars

\* ---------------------------------------------- the lifecycle specification
\* Requests from sendMessage to their end: by a run-finished or run-error
\* event, by the stream closing, or by a transport failure.
NextLifecycle ==
  \/ SendMessage(NoBody)
  \/ Tick
  \/ \E r \in Reading : Deliver(r, EvRunStarted, MaxEvents, FALSE)
  \/ \E r \in Reading : Deliver(r, EvTextStart, MaxEvents, FALSE)
  \/ \E r \in Reading : Deliver(r, EvTextContent(<<"A">>), MaxEvents, FALSE)
  \/ \E r \in Reading : Deliver(r, EvStepStarted("s1", Undefined), MaxEvents, FALSE)
  \/ \E r \in Reading : Deliver(r, EvRunFinished, MaxEvents, FALSE)
  \/ \E r \in Reading : Deliver(r, EvRunError, MaxEvents, FALSE)
  \/ \E r \in Reading : StreamClose(r)
  \/ \E r \in Reading : TransportFailure(r)

SpecLifecycle == Init /\ [][NextLifecycle]_vars

\* --------------------------------------------------- the text specification
\* One request whose response carries text segments, a step, a tool call and
\* the end of the run, in any order; the request logs its events.
NextText ==
  \/ (requests = <<>> /\ SendMessage(NoBody))
  \/ Tick
  \/ \E r \in Reading : Deliver(r, EvTextStart, MaxEvents, TRUE)
  \/ \E r \in Reading, d \in Deltas : Deliver(r, EvTextContent(d), MaxEvents, TRUE)
  \/ \E r \in Reading : Deliver(r, EvTextEnd, MaxEvents, TRUE)
  \/ \E r \in Reading : Deliver(r, EvStepStarted("s1", Undefined), MaxEvents, TRUE)
  \/ \E r \in Reading : Deliver(r, EvToolStart("t1"), MaxEvents, TRUE)
  \/ \E r \in Reading : Deliver(r, EvRunFinished, MaxEvents, TRUE)

SpecText == Init /\ [][NextText]_vars

\* ------------------------------------------------- the ledger specification
\* Requests whose responses interleave text, steps and tool calls, end their
\* run, or close without ending it.
NextLedger ==
  \/ SendMessage(NoBody)
  \/ Tick
  \/ \E r \in Reading : Deliver(r, EvTextStart, MaxEvents, FALSE)
  \/ \E r \in Reading : Deliver(r, EvTextContent(<<"A">>), MaxEvents, FALSE)
  \/ \E r \in Reading : Deliver(r, EvStepStarted("s1", Undefined), MaxEvents, FALSE)
  \/ \E r \in Reading : Deliver(r, EvStepFinished("s2", Undefined), MaxEvents, FALSE)
  \/ \E r \in Reading, id \in ToolIds : Deliver(r, EvToolStart(id), MaxEvents, FALSE)
  \/ \E r \in Reading : Deliver(r, EvRunFinished, MaxEvents, FALSE)
  \/ \E r \in Reading : StreamClose(r)

SpecLedger == Init /\ [][NextLedger]_vars

\* ---------------------------------------------- the tool-call specification
\* One request whose response carries the events of two tool calls in any
\* order, known or unknown to the registry, and the end of the run; the
\* request logs its events.
ToolResults == {<<"ok">>}

NextTools ==
  \/ (requests = <<>> /\ SendMessage(NoBody))
  \/ \E r \in Reading, id \in ToolIds : Deliver(r, EvToolStart(id), MaxEvents, TRUE)
  \/ \E r \in Reading, id \in ToolIds, d \in Deltas :
       Deliver(r, EvToolArgs(id, d), MaxEvents, TRUE)
  \/ \E r \in Reading, id \in ToolIds : Deliver(r, EvToolEnd(id), MaxEvents, TRUE)
  \/ \E r \in Reading, id \in ToolIds, c \in ToolResults :
       Deliver(r, EvToolResult(id, c), MaxEvents, TRUE)
  \/ \E r \in Reading : Deliver(r, EvRunFinished, MaxEvents, TRUE)

SpecTools == Init /\ [][NextTools]_vars

\* --------------------------------------------------- the run specification
\* Requests whose responses are made of the events of a text run; a request
\* ends when its stream closes; the requests log their events.  The clock is
\* followed between the requests only.
NextRun ==
  \/ SendMessage(NoBody)
  \/ (Reading = {} /\ Tick)
  \/ \E r \in Reading : Deliver(r, EvRunStarted, MaxRunEvents, TRUE)
  \/ \E r \in Reading : Deliver(r, EvTextStart, MaxRunEvents, TRUE)
  \/ \E r \in Reading, d \in Deltas : Deliver(r, EvTextContent(d), MaxRunEvents, TRUE)
  \/ \E r \in Reading : Deliver(r, EvTextEnd, MaxRunEvents, TRUE)
  \/ \E r \in Reading : Deliver(r, EvRunFinished, MaxRunEvents, TRUE)
  \/ \E r \in Reading : StreamClose(r)

SpecRun == Init /\ [][NextRun]_vars

\* ------------------------------------------- the cancellation specification
\* Requests that stream the start of a run and text and then end: cancelled,
\* closed by the server, or failed in the transport.
NextCancel ==
  \/ SendMessage(NoBody)
  \/ Tick
  \/ \E r \in Reading : Deliver(r, EvRunStarted, MaxEvents, TRUE)
  \/ \E r \in Reading : Deliver(r, EvTextStart, MaxEvents, TRUE)
  \/ \E r \in Reading : Deliver(r, EvTextContent(<<"A">>), MaxEvents, TRUE)
  \/ \E r \in Reading : Abort(r)
  \/ \E r \in Reading : StreamClose(r)
  \/ \E r \in Reading : TransportFailure(r)

SpecCancel == Init /\ [][NextCancel]_vars

\* ------------------------------------------- the unknown-event specification
\* One request whose response mixes events the reducers handle with events
\* they have no branch for; the request logs its events.
NextUnknown ==
  \/ (requests = <<>> /\ SendMessage(NoBody))
  \/ \E r \in Reading : Deliver(r, EvRunStarted, MaxEvents, TRUE)
  \/ \E r \in Reading : Deliver(r, EvTextStart, MaxEvents, TRUE)
  \/ \E r \in Reading : Deliver(r, EvTextContent(<<"A">>), MaxEvents, TRUE)
  \/ \E r \in Reading : Deliver(r, EvStepStarted("s1", Undefined), MaxEvents, TRUE)
  \/ \E r \in Reading : Deliver(r, EvToolStart("t1"), MaxEvents, TRUE)
  \/ \E r \in Reading, type \in UnknownTypes :
       Deliver(r, EvUnknown(type), MaxEvents, TRUE)
  \/ \E r \in Reading : Deliver(r, EvCustomOther, MaxEvents, TRUE)
  \/ \E r \in Reading : Deliver(r, EvRunError, MaxEvents, TRUE)

SpecUnknown == Init /\ [][NextUnknown]_vars

\* ---------------------------------------------------- the clear specification
\* One request whose response carries text, step and tool-call events and a
\* run-error, while the user may clear the chat (the button is enabled when the
\* transcript is not empty); the request logs its events.
NextClear ==
  \/ (requests = <<>> /\ SendMessage(NoBody))
  \/ (messages # <<>> /\ clearMessages)
  \/ \E r \in Reading : Deliver(r, EvTextStart, MaxEvents, TRUE)
  \/ \E r \in Reading, d \in Deltas : Deliver(r, EvTextContent(d), MaxEvents, TRUE)
  \/ \E r \in Reading : Deliver(r, EvTextEnd, MaxEvents, TRUE)
  \/ \E r \in Reading : Deliver(r, EvStepStarted("s1", Undefined), MaxEvents, TRUE)
  \/ \E r \in Reading : Deliver(r, EvStepFinished("s1", Undefined), MaxEvents, TRUE)
  \/ \E r \in Reading : Deliver(r, EvStepUpdate("s1", "in_progress", "Working"),
                                MaxEvents, TRUE)
  \/ \E r \in Reading : Deliver(r, EvToolStart("t1"), MaxEvents, TRUE)
  \/ \E r \in Reading : Deliver(r, EvRunError, MaxEvents, TRUE)

SpecClear == Init /\ [][NextClear]_vars

\* ------------------------------------------------------------ the decoder
\* The response body is a sequence of bytes.  An ASCII byte is written as its
\* character; "C3" "A9" are the two bytes of the character "é".  A JSON
\* document is written {x}, the letter x standing for the members of the
\* object: s a TEXT_MESSAGE_START, é a TEXT_MESSAGE_CONTENT with delta "A",
\* f a RUN_FINISHED, and {} an object with no type.
DataPrefix == <<"d", "a", "t", "a", ":", " ">>
DoneText == <<"[", "D", "O", "N", "E", "]">>

\* TextDecoder.decode(value, { stream: true }): a lead byte at the end of the
\* chunk is held back until its continuation arrives; a lead byte with no
\* continuation and a stray continuation decode to U+FFFD.
RECURSIVE Utf8Decode(_)
Utf8Decode(bytes) ==
  IF bytes = <<>> THEN [chars |-> <<>>, pending |-> <<>>]
  ELSE IF Head(bytes) = "C3"
       THEN IF Len(bytes) = 1 THEN [chars |-> <<>>, pending |-> bytes]
            ELSE IF bytes[2] = "A9"
                 THEN LET d == Utf8Decode(Tail(Tail(bytes)))
                      IN [d EXCEPT !.chars = <<"é">> \o @]
                 ELSE LET d == Utf8Decode(Tail(bytes))
                      IN [d EXCEPT !.chars = <<"U+FFFD">> \o @]
       ELSE LET d == Utf8Decode(Tail(bytes))
            IN [d EXCEPT !.chars = <<IF Head(bytes) = "A9" THEN "U+FFFD"
                                       ELSE Head(bytes)>> \o @]

\* String.prototype.split('\n'): the pieces between the separators; the last
\* piece is what follows the last separator.
RECURSIVE Split(_, _)
Split(text, sep) ==
  IF \E i \in 1..Len(text) : text[i] = sep
  THEN LET i == CHOOSE i \in 1..Len(text) :
                  text[i] = sep /\ \A j \in 1..(i - 1) : text[j] # sep
       IN <<SubSeq(text, 1, i - 1)>> \o Split(SubSeq(text, i + 1, Len(text)), sep)
  ELSE <<text>>

\* line.startsWith(prefix)
StartsWith(line, prefix) ==
  Len(line) >= Len(prefix) /\ SubSeq(line, 1, Len(prefix)) = prefix

\* JSON.parse(data): the event, or null when it throws.
JsonParse(data) ==
  IF data = <<"{", "s", "}">> THEN Some(EvTextStart)
  ELSE IF data = <<"{", "é", "}">> THEN Some(EvTextContent(<<"A">>))
  ELSE IF data = <<"{", "f", "}">> THEN Some(EvRunFinished)
  ELSE IF data = <<"{", "}">> THEN Some([type |-> Undefined])
  ELSE Null

\* A decoder in which a parse failure raises the error flag.
ProcessLine_ParseErrorFlag(st, line, t) ==
  IF ~StartsWith(line, DataPrefix) THEN st
  ELSE LET data == SubSeq(line, Len(DataPrefix) + 1, Len(line))
       IN IF data = DoneText THEN st
          ELSE LET event == JsonParse(data)
               IN IF event = Null
                  THEN [st EXCEPT !.hook.error = Some("Unexpected token")]
                  ELSE [st EXCEPT !.hook = handleEvent(@, Val(event), t),
                                  !.events = Append(@, Val(event))]

\* A decoder in which the [DONE] record raises the error flag.
ProcessLine_DoneIsError(st, line, t) ==
  IF ~StartsWith(line, DataPrefix) THEN st
  ELSE LET data == SubSeq(line, Len(DataPrefix) + 1, Len(line))
       IN IF data = DoneText
          THEN [st EXCEPT !.hook.error = Some("Stream ended")]
          ELSE LET event == JsonParse(data)
               IN IF event = Null THEN st
                  ELSE [st EXCEPT !.hook = handleEvent(@, Val(event), t),
                                  !.events = Append(@, Val(event))]

\* The body of the loop over the lines: st is the hook's state with the events
\* dispatched so far.
ProcessLine(st, line, t) ==
  IF ~StartsWith(line, DataPrefix) THEN st
  ELSE LET data == SubSeq(line, Len(DataPrefix) + 1, Len(line))
       IN IF data = DoneText THEN st
          ELSE LET event == JsonParse(data)
               IN IF event = Null THEN st
                  ELSE [st EXCEPT !.hook = handleEvent(@, Val(event), t),
                                  !.events = Append(@, Val(event))]

RECURSIVE ProcessLines(_, _, _)
ProcessLines(st, lines, t) ==
  IF lines = <<>> THEN st
  ELSE ProcessLines(ProcessLine(st, Head(lines), t), Tail(lines), t)

\* A decoder that forgets the incomplete last line of a chunk.
PopBuffer_Forgotten(lines) == <<>>

\* buffer = lines.pop() || ''
PopBuffer(lines) == lines[Len(lines)]

\* A read loop that also parses the line the chunk leaves incomplete.
ReadChunk_ParsesRemainder(st, value, t) ==
  LET decoded == Utf8Decode(st.pending \o value)
      lines == Split(st.buffer \o decoded.chars, "\n")
      done == ProcessLines([hook |-> st.hook, events |-> st.events], lines, t)
  IN [hook |-> done.hook, events |-> done.events, pending |-> decoded.pending,
      buffer |-> PopBuffer(lines)]

\* One turn of the read loop on a chunk of bytes.  st holds the hook's state,
\* the decoder's held-back bytes, the line buffer and the events dispatched.
ReadChunk(st, value, t) ==
  LET decoded == Utf8Decode(st.pending \o value)
      lines == Split(st.buffer \o decoded.chars, "\n")
      done == ProcessLines([hook |-> st.hook, events |-> st.events],
                           SubSeq(lines, 1, Len(lines) - 1), t)
  IN [hook |-> done.hook, events |-> done.events, pending |-> decoded.pending,
      buffer |-> PopBuffer(lines)]

\* reader.read() yields the next n bytes of the body.
Read(r, n) ==
  /\ r \in Reading
  /\ variant = "fetch"
  /\ n \in 1..(Len(requests[r].body) - requests[r].pos)
  /\ LET q == requests[r]
         st == ReadChunk([hook |-> Hook, events |-> q.log, pending |-> q.pending,
                          buffer |-> q.buffer],
                         SubSeq(q.body, q.pos + 1, q.pos + n), now)
     IN /\ Commit(st.hook)
        /\ requests' = [requests EXCEPT ![r].pos = @ + n, ![r].log = st.events,
                                        ![r].pending = st.pending,
                                        ![r].buffer = st.buffer]
        /\ last' = [op |-> "read", req |-> r, carried |-> q.buffer # <<>>,
                    held |-> q.pending # <<>>,
                    dispatched |-> Len(st.events) - Len(q.log)]
  /\ UNCHANGED <<variant, now, nEvents>>

\* The records a response body is made of.
DataLine(payload) == DataPrefix \o payload \o <<"\n">>
RecStart == DataLine(<<"{", "s", "}">>)
RecContent == DataLine(<<"{", "C3", "A9", "}">>)
RecFinished == DataLine(<<"{", "f", "}">>)
RecDone == DataLine(DoneText)
RecBad == DataLine(<<"{", "s">>)
RecBlank == <<"\n">>
RecOpen == DataPrefix \o <<"{", "f", "}">>
Records == {RecStart, RecContent, RecFinished, RecDone, RecBad, RecBlank, RecOpen}

\* Records in one response body.
MaxRecords == 3

RECURSIVE BodiesOf(_)
BodiesOf(k) ==
  IF k = 0 THEN {<<>>}
  ELSE LET shorter == BodiesOf(k - 1)
       IN shorter \cup {b \o rec : b \in shorter, rec \in Records}

Bodies == BodiesOf(MaxRecords)

\* One request of the fetch evolution, its body read in chunks of any size.
NextDecoder ==
  \/ (variant = "fetch" /\ requests = <<>> /\ SendMessage(Bodies))
  \/ \E r \in Reading : \E n \in 1..Len(requests[r].body) : Read(r, n)
  \/ \E r \in Reading : StreamClose(r)

SpecDecoder == Init /\ [][NextDecoder]_vars

\* ------------------------------------------------------------------- views
\* A published message with its arrays dereferenced.
Blocks(m) == [i \in 1..Len(m.contentBlocks) |-> heap[m.contentBlocks[i]]]
Steps(m) == [i \in 1..Len(m.steps) |-> heap[m.steps[i]]]
ToolCalls(m) == [i \in 1..Len(m.toolCalls) |-> heap[m.toolCalls[i]]]
Assistants == {i \in 1..Len(messages) : messages[i].role = "assistant"}

\* The ledger of a message as the renderer reads it: each entry's kind, and a
\* text entry's accumulated text.
Ledger(m) ==
  [i \in 1..Len(m.contentBlocks) |->
     LET b == heap[m.contentBlocks[i]]
     IN IF b.type = "text" THEN <<"text", b.content>> ELSE <<b.type>>]

\* ------------------------------------------------------------------ claims
C1Sequence ==
  <<EvTextStart, EvTextContent(<<"A">>), EvStepStarted("s1", Undefined),
    EvTextStart, EvTextContent(<<"B">>), EvToolStart("t1")>>

\* C1: ordering fidelity.  After the events text-start, text-delta("A"),
\* step-start, text-start, text-delta("B"), tool-call-start the assistant
\* message's ledger is exactly [text("A"), steps, text("B"), tools].
C1_OrderingFidelity ==
  \A r \in 1..Len(requests) :
    requests[r].log = C1Sequence =>
      /\ Assistants # {}
      /\ \A i \in Assistants :
           Ledger(messages[i]) =
             << <<"text", <<"A">> >>, <<"steps">>, <<"text", <<"B">> >>, <<"tools">> >>

\* The last step delivered an event of this type to the reducer.
Delivered(type) == last.op = "event" /\ last.event.type = type

\* The registry key a step event resolves to.
StepKey(e) ==
  IF variant = "fetch" /\ ~Falsy(e.stepId) THEN e.stepId ELSE e.stepName

\* C2: status monotonicity.  Whatever step-start, step-finish and step_update
\* events arrive, and in whatever order, the status of a step record never
\* moves to a lower priority (pending < in-progress < done < failed).
C2_StatusMonotone ==
  [][\A a \in 1..Len(heap) :
       heap[a].type = "step" =>
         statusPriority(heap'[a].status) >= statusPriority(heap[a].status)]_vars

\* A step that has failed was sent a later in_progress update and stays failed.
C2_Witness ==
  /\ Delivered("CUSTOM")
  /\ last.event.value.status = "in_progress"
  /\ \E i \in 1..Len(stepsRef) :
       /\ heap[stepsRef[i]].id = last.event.value.stepName
       /\ heap[stepsRef[i]].status = "failed"

\* C6: step-start idempotence.  A step-start whose identifier already has a
\* step record leaves the step registry, every record (status, activeForm),
\* the ledger and the published transcript as they were.
C6_StepStartIdempotent ==
  [][(/\ nEvents' = nEvents + 1
      /\ last'.event.type = "STEP_STARTED"
      /\ MapGet(heap, stepsRef, StepKey(last'.event)) # 0)
     => /\ stepsRef' = stepsRef
        /\ heap' = heap
        /\ contentBlocksRef' = contentBlocksRef
        /\ messages' = messages]_vars

\* A step-start arrived for a step that is already done.
C6_Witness ==
  /\ Delivered("STEP_STARTED")
  /\ \E i \in 1..Len(stepsRef) :
       /\ heap[stepsRef[i]].id = StepKey(last.event)
       /\ heap[stepsRef[i]].status = "done"

\* What out-of-order tolerance asks of a step-finish for an identifier with no
\* step record: afterwards the registry holds a record of that identifier with
\* status done, published in the current assistant message, whose ledger holds
\* the steps marker once.
FinishCreatesDoneStep ==
  (/\ nEvents' = nEvents + 1
   /\ last'.event.type = "STEP_FINISHED"
   /\ MapGet(heap, stepsRef, StepKey(last'.event)) = 0)
  => LET a == MapGet(heap', stepsRef', StepKey(last'.event))
     IN /\ a # 0
        /\ heap'[a].status = "done"
        /\ currentMessageRef' # Null
        /\ Val(currentMessageRef').steps = stepsRef'
        /\ Val(currentMessageRef').contentBlocks = contentBlocksRef'
        /\ Cardinality({i \in 1..Len(contentBlocksRef') :
                          heap'[contentBlocksRef'[i]].type = "steps"}) = 1
        /\ \E i \in 1..Len(messages') : messages'[i] = Val(currentMessageRef')

\* C7: in the subscriber reducer a step-finish for an unseen identifier is not
\* dropped: a message is ensured, the steps marker is in the ledger and a step
\* record with status done exists.
C7_SubscriberFinishUnseen ==
  [][variant = "subscriber" => FinishCreatesDoneStep]_vars

\* The first event of a subscriber run is a step-finish, and its step is done.
C7_Witness ==
  /\ variant = "subscriber"
  /\ Delivered("STEP_FINISHED")
  /\ nEvents = 1
  /\ Len(stepsRef) = 1
  /\ heap[stepsRef[1]].status = "done"
  /\ Len(messages) = 2

\* C8: in the fetch reducer a STEP_FINISHED for an unseen identifier creates a
\* step record with status done.
C8_FetchFinishUnseen ==
  [][variant = "fetch" => FinishCreatesDoneStep]_vars

\* Every request made so far has ended.
AllEnded ==
  /\ requests # <<>>
  /\ \A r \in 1..Len(requests) : requests[r].pc = "ended"

\* C5: run lifecycle flags.  Once the fetch evolution's requests have ended
\* (by run-finished, run-error, transport failure or the stream closing),
\* isStreaming and runActive are both false.
C5_FlagsResetAtEnd ==
  (variant = "fetch" /\ AllEnded) => (~isStreaming /\ ~runActive)

\* C4: a new user turn starts cleanly.  When sendMessage begins after every
\* earlier request of the fetch evolution has ended, there is no current
\* assistant message and the registries, the ledger and the open-text pointer
\* are empty; and the message an event of the new run writes to lies after
\* the new user message.
C4_CleanTurn ==
  variant = "fetch" =>
    /\ (/\ last.op = "sendMessage"
        /\ \A r \in 1..(Len(requests) - 1) : requests[r].pc = "ended")
       => /\ currentMessageRef = Null
          /\ toolCallsRef = <<>>
          /\ stepsRef = <<>>
          /\ contentBlocksRef = <<>>
          /\ currentTextBlockIdRef = Null
    /\ (/\ last.op = "event"
        /\ last.req = Len(requests)
        /\ \A r \in 1..(Len(requests) - 1) : requests[r].pc = "ended"
        /\ currentMessageRef # Null)
       => FindIndex(messages, Val(currentMessageRef).id) > requests[last.req].turn

\* The text of a ledger: its text blocks' content, concatenated in ledger order.
RECURSIVE ConcatText(_, _)
ConcatText(h, blocks) ==
  IF blocks = <<>> THEN <<>>
  ELSE (IF h[Head(blocks)].type = "text" THEN h[Head(blocks)].content ELSE <<>>)
       \o ConcatText(h, Tail(blocks))

\* The deltas of a log's text-delta events, concatenated in arrival order.
RECURSIVE DeltasOf(_)
DeltasOf(log) ==
  IF log = <<>> THEN <<>>
  ELSE (IF Head(log).type = "TEXT_MESSAGE_CONTENT" THEN Head(log).delta ELSE <<>>)
       \o DeltasOf(Tail(log))

\* A text segment is open after a log: a text-start has arrived and neither a
\* text-end nor the end of the run has followed it.
SegmentOpen(log) ==
  \E j \in 1..Len(log) :
    /\ log[j].type = "TEXT_MESSAGE_START"
    /\ \A k \in (j + 1)..Len(log) :
         log[k].type \notin {"TEXT_MESSAGE_END", "RUN_FINISHED", "RUN_ERROR"}

\* A valid event sequence of one run: every text-delta arrives while a text
\* segment is open, and the end of the run is the last event.
ValidText(log) ==
  /\ \A i \in 1..Len(log) :
       log[i].type = "TEXT_MESSAGE_CONTENT" => SegmentOpen(SubSeq(log, 1, i - 1))
  /\ \A i \in 1..(Len(log) - 1) : log[i].type \notin {"RUN_FINISHED", "RUN_ERROR"}

Fresh(q) == [hook |-> q.start, events |-> <<>>, pending |-> <<>>, buffer |-> <<>>]

Consumed(q) == SubSeq(q.body, 1, q.pos)

\* C9: decoder chunking round-trip.  However the bytes of the body are split
\* into chunks (inside a record and inside a character included), the events
\* dispatched and the incomplete line kept are those of the same bytes read as
\* a single chunk.
C9_ChunkingRoundTrip ==
  \A r \in 1..Len(requests) :
    LET q == requests[r]
        whole == ReadChunk(Fresh(q), Consumed(q), q.at)
    IN variant = "fetch" =>
         /\ q.log = whole.events
         /\ q.buffer = whole.buffer
         /\ q.pending = whole.pending

\* A read that began with part of a line buffered and a lead byte held back,
\* and dispatched the event of the record completed by its chunk.
C9_Witness ==
  /\ last.op = "read"
  /\ last.carried
  /\ last.held
  /\ last.dispatched >= 1

\* A complete line of bytes that is a data record whose payload does not parse.
Malformed(byteLine) ==
  LET d == Utf8Decode(byteLine)
      data == SubSeq(d.chars, Len(DataPrefix) + 1, Len(d.chars))
  IN /\ d.pending = <<>>
     /\ StartsWith(d.chars, DataPrefix)
     /\ data # DoneText
     /\ JsonParse(data) = Null

RECURSIVE JoinWellFormed(_)
JoinWellFormed(byteLines) ==
  IF Len(byteLines) = 1 THEN Head(byteLines)
  ELSE (IF Malformed(Head(byteLines)) THEN <<>> ELSE Head(byteLines) \o <<"\n">>)
       \o JoinWellFormed(Tail(byteLines))

\* The bytes with every complete malformed record absent.
WithoutMalformed(bytes) == JoinWellFormed(Split(bytes, "\n"))

\* C10: malformed event drop.  A data record whose payload is not valid JSON
\* dispatches nothing, sets no error, and does not end the read loop: the
\* events dispatched, the transcript and the flags are those of the same
\* stream with the record absent, and the request is still reading while
\* bytes remain.
C10_MalformedDropped ==
  \A r \in 1..Len(requests) :
    LET q == requests[r]
        clean == ReadChunk(Fresh(q), WithoutMalformed(Consumed(q)), q.at)
    IN variant = "fetch" =>
         /\ q.log = clean.events
         /\ messages = clean.hook.messages
         /\ heap = clean.hook.heap
         /\ error = clean.hook.error
         /\ runActive = clean.hook.runActive
         /\ q.pos < Len(q.body) => q.pc = "reading"

\* A malformed record between two well-formed ones has been read, and both of
\* these were dispatched.
C10_Witness ==
  /\ Len(requests) = 1
  /\ requests[1].body = RecStart \o RecBad \o RecContent
  /\ requests[1].pos = Len(requests[1].body)
  /\ requests[1].log = <<EvTextStart, EvTextContent(<<"A">>)>>
  /\ error = Null

\* A complete line of bytes that is the record data: [DONE].
DoneLine(byteLine) == byteLine = DataPrefix \o DoneText

RECURSIVE JoinWithoutDone(_)
JoinWithoutDone(byteLines) ==
  IF Len(byteLines) = 1 THEN Head(byteLines)
  ELSE (IF DoneLine(Head(byteLines)) THEN <<>> ELSE Head(byteLines) \o <<"\n">>)
       \o JoinWithoutDone(Tail(byteLines))

\* The bytes with every complete [DONE] record absent.
WithoutDone(bytes) == JoinWithoutDone(Split(bytes, "\n"))

\* C24: the end-of-stream marker.  A data: [DONE] record is never dispatched
\* to the reducer, sets no error flag, attaches no error payload and leaves
\* the transcript as it is: the events dispatched, the transcript, the records
\* and the flags are those of the same stream with the record absent.
C24_DoneUnchanged ==
  \A r \in 1..Len(requests) :
    LET q == requests[r]
        clean == ReadChunk(Fresh(q), WithoutDone(Consumed(q)), q.at)
    IN variant = "fetch" =>
         /\ q.log = clean.events
         /\ messages = clean.hook.messages
         /\ heap = clean.hook.heap
         /\ error = clean.hook.error
         /\ runActive = clean.hook.runActive
         /\ currentMessageRef = clean.hook.currentMessageRef

\* A [DONE] record has been read after a text-start: the text-start is the
\* only event dispatched, its message is still open and no error is set.
C24_Witness ==
  /\ Len(requests) = 1
  /\ requests[1].body = RecStart \o RecDone
  /\ requests[1].pos = Len(requests[1].body)
  /\ requests[1].log = <<EvTextStart>>
  /\ error = Null
  /\ currentMessageRef # Null
  /\ "error" \notin DOMAIN messages[Len(messages)]

\* ------------------------------------------------- claims on the transcript
\* The id of the message an event delivered now writes to: the current
\* message's, or that of the message ensureAssistantMessage creates.
TargetId ==
  IF currentMessageRef # Null THEN Val(currentMessageRef).id ELSE <<"assistant", now>>

\* The entries of the list that a step changed.
Changed == {i \in 1..Len(messages) : i > Len(messages') \/ messages'[i] # messages[i]}

Range(seq) == {seq[i] : i \in 1..Len(seq)}

\* The shared objects reachable from a published list of messages.
Reachable(msgs) ==
  UNION {Range(msgs[i].contentBlocks) \cup Range(msgs[i].steps)
           \cup Range(msgs[i].toolCalls) :
         i \in {j \in 1..Len(msgs) : msgs[j].role = "assistant"}}

\* C12: snapshot immutability.  No step alters a transcript snapshot that was
\* published before it: the text blocks, steps and tool calls reachable from
\* the published list keep the values they had when the list was published.
C12_SnapshotImmutable ==
  [][\A a \in Reachable(messages) : heap'[a] = heap[a]]_vars

\* An assistant message whose isStreaming flag has been cleared.
Finalized(m) == m.role = "assistant" /\ ~m.isStreaming

\* C13: finalized messages are immutable.  Once an assistant message's
\* isStreaming flag is cleared, no later event, end of request or sendMessage
\* changes the message or the records it holds; only clearMessages removes it.
C13_FinalizedImmutable ==
  [][\A i \in 1..Len(messages) :
       Finalized(messages[i]) =>
         \/ last'.op = "clearMessages"
         \/ /\ i <= Len(messages')
            /\ messages'[i] = messages[i]
            /\ \A a \in Reachable(<<messages[i]>>) : heap'[a] = heap[a]]_vars

\* The entries of a message's ledger that are markers of this kind.
Markers(h, m, kind) ==
  Cardinality({i \in 1..Len(m.contentBlocks) : h[m.contentBlocks[i]].type = kind})

IsPrefix(a, b) == Len(a) <= Len(b) /\ SubSeq(b, 1, Len(a)) = a

\* C14: ledger invariant.  Every assistant message's ledger holds at most one
\* steps marker and at most one tools marker, and from one snapshot of a
\* message to the next its ledger only grows at the end: the earlier ledger is
\* a prefix of the later one and its entries keep their kind and id.
C14_LedgerInvariant ==
  [][/\ \A i \in 1..Len(messages') :
          messages'[i].role = "assistant" =>
            /\ Markers(heap', messages'[i], "steps") <= 1
            /\ Markers(heap', messages'[i], "tools") <= 1
     /\ \A i \in 1..Len(messages) :
          (messages[i].role = "assistant" /\ last'.op # "clearMessages") =>
            /\ i <= Len(messages')
            /\ IsPrefix(messages[i].contentBlocks, messages'[i].contentBlocks)
            /\ \A a \in Range(messages[i].contentBlocks) :
                 heap'[a].type = heap[a].type /\ heap'[a].id = heap[a].id]_vars

\* ------------------------------------------------------ claims on tool calls
\* From this state to the next the arguments registered under a call
\* identifier only grew, while the current message stayed the same.
ArgsGrow(id) ==
  LET a == MapGet(heap, toolCallsRef, id)
      b == MapGet(heap', toolCallsRef', id)
  IN (/\ a # 0
      /\ heap[a].isLoading
      /\ currentMessageRef # Null
      /\ currentMessageRef' # Null
      /\ Val(currentMessageRef').id = Val(currentMessageRef).id)
     => /\ b # 0
        /\ IsPrefix(heap[a].args, heap'[b].args)

\* C15 as stated: for any event sequence within one message, each successive
\* value of the arguments of a call identifier has the previous value as a
\* prefix until an end or result event closes the call.
C15_ArgsAppendOnlyAnySequence ==
  [][\A id \in ToolIds : ArgsGrow(id)]_vars

\* The step delivers a tool-call-start for this identifier.
StartsAgain(id) ==
  /\ nEvents' = nEvents + 1
  /\ last'.event.type = "TOOL_CALL_START"
  /\ last'.event.toolCallId = id

\* C15: the arguments of a call identifier are append-only within one message
\* on every step that is not a tool-call-start of that identifier, and the
\* arguments of a tool-call record never change other than by appending; a
\* tool-call-start puts a new record with empty arguments under its identifier.
C15_ArgsAppendOnly ==
  [][/\ \A id \in ToolIds : ~StartsAgain(id) => ArgsGrow(id)
     /\ \A a \in 1..Len(heap) :
          heap[a].type = "tool" => IsPrefix(heap[a].args, heap'[a].args)
     /\ \A id \in ToolIds :
          StartsAgain(id) =>
            heap'[MapGet(heap', toolCallsRef', id)].args = <<>>]_vars

\* A second delta has been appended to the arguments of a call.
C15_Witness ==
  /\ Delivered("TOOL_CALL_ARGS")
  /\ \E i \in 1..Len(toolCallsRef) :
       /\ heap[toolCallsRef[i]].id = last.event.toolCallId
       /\ Len(heap[toolCallsRef[i]].args) = 2
       /\ currentMessageRef # Null
       /\ Val(currentMessageRef).toolCalls = toolCallsRef

\* The deltas of a log's tool-call-args events, concatenated in arrival order.
RECURSIVE ArgsOf(_)
ArgsOf(log) ==
  IF log = <<>> THEN <<>>
  ELSE (IF Head(log).type = "TOOL_CALL_ARGS" THEN Head(log).delta ELSE <<>>)
       \o ArgsOf(Tail(log))

\* A log that is a tool-call-start, args deltas and a result of one call
\* identifier, with no end event.
StartArgsResult(log, id) ==
  /\ Len(log) >= 2
  /\ log[1] = EvToolStart(id)
  /\ \A i \in 2..(Len(log) - 1) :
       log[i].type = "TOOL_CALL_ARGS" /\ log[i].toolCallId = id
  /\ log[Len(log)].type = "TOOL_CALL_RESULT"
  /\ log[Len(log)].toolCallId = id

\* C16: tool-call result.  After tool-call-start(id, name), args deltas and a
\* tool-call-result(id, content) with no tool-call-end, the assistant message
\* holds exactly one tool-call record: that id and name, the deltas
\* concatenated in order as args, the content as result, isLoading false.
C16_ToolCallResult ==
  \A r \in 1..Len(requests) : \A id \in ToolIds :
    StartArgsResult(requests[r].log, id) =>
      /\ Cardinality(Assistants) = 1
      /\ \A i \in Assistants :
           /\ Len(messages[i].toolCalls) = 1
           /\ heap[messages[i].toolCalls[1]] =
                [type |-> "tool", id |-> id, name |-> "get_x",
                 args |-> ArgsOf(requests[r].log),
                 result |-> requests[r].log[Len(requests[r].log)].content,
                 isLoading |-> FALSE]

\* A start, two deltas and the result of call t1 have been delivered.
C16_Witness ==
  /\ Len(requests) = 1
  /\ requests[1].log = <<EvToolStart("t1"), EvToolArgs("t1", <<"A">>),
                         EvToolArgs("t1", <<"B">>), EvToolResult("t1", <<"ok">>)>>
  /\ \E i \in Assistants : heap[messages[i].toolCalls[1]].args = <<"A", "B">>

\* The step delivers a tool-call-args, -end or -result event whose call
\* identifier is not in the tool registry.
UnknownToolEvent ==
  /\ nEvents' = nEvents + 1
  /\ last'.event.type \in {"TOOL_CALL_ARGS", "TOOL_CALL_END", "TOOL_CALL_RESULT"}
  /\ MapGet(heap, toolCallsRef, last'.event.toolCallId) = 0

\* C17: unknown tool identifier.  A tool-call-args, -end or -result event
\* whose call identifier is not in the tool registry changes nothing: the
\* transcript, the registries, the ledger, the records and the flags are as
\* before, and no assistant message is created.
C17_UnknownToolNoOp ==
  [][UnknownToolEvent => UNCHANGED hookVars]_vars

\* An event for an unknown call arrived while another call is registered, and
\* one arrived before any assistant message exists.
C17_Witness ==
  /\ last.op = "event"
  /\ last.event.type \in {"TOOL_CALL_ARGS", "TOOL_CALL_END", "TOOL_CALL_RESULT"}
  /\ MapGet(heap, toolCallsRef, last.event.toolCallId) = 0
  /\ toolCallsRef # <<>>
  /\ requests[last.req].log[1].type = "TOOL_CALL_END"
  /\ Cardinality(Assistants) = 1

\* ------------------------------------------------ claims on the end of a run
\* The refs are as the code leaves them for the next run.
RefsReset ==
  /\ currentMessageRef = Null
  /\ toolCallsRef = <<>>
  /\ stepsRef = <<>>
  /\ contentBlocksRef = <<>>
  /\ currentTextBlockIdRef = Null
  /\ ~hasStepsBlockRef
  /\ ~hasToolsBlockRef

\* The place of the current assistant message in the transcript: where
\* ensureAssistantMessage appended it, or the end of the list when the event
\* has to create it.
Place ==
  IF currentMessageRef = Null THEN Len(messages) + 1
  ELSE CHOOSE i \in 1..Len(messages) :
         /\ messages[i].id = Val(currentMessageRef).id
         /\ \A j \in (i + 1)..Len(messages) : messages[j].id # messages[i].id

\* The message an event finalizes: the current one, or a new empty one.
Current ==
  IF currentMessageRef # Null THEN Val(currentMessageRef)
  ELSE [id |-> <<"assistant", now>>, role |-> "assistant", content |-> <<>>,
        isStreaming |-> TRUE, toolCalls |-> <<>>, steps |-> <<>>,
        contentBlocks |-> <<>>]

\* Every entry of the transcript but the one at place p is as it was.
OthersKept(p) ==
  \A i \in 1..Len(messages) : i # p => messages'[i] = messages[i]

\* C18: run-error.  After a run-error event the current assistant message
\* (created by the event if there was none) stands at its place in the
\* transcript with error {title: "Error", body: event.message} and isStreaming
\* false, its other fields and every other entry as before; the refs are
\* reset; runActive and isStreaming are false and the error flag is the
\* event's message.
C18_RunError ==
  [][(nEvents' = nEvents + 1 /\ last'.event.type = "RUN_ERROR") =>
       /\ Len(messages') = (IF currentMessageRef = Null THEN Len(messages) + 1
                            ELSE Len(messages))
       /\ messages'[Place] =
            Merge(Current, [isStreaming |-> FALSE,
                            error |-> [title |-> "Error",
                                       body |-> last'.event.message]])
       /\ OthersKept(Place)
       /\ RefsReset'
       /\ ~runActive' /\ ~isStreaming'
       /\ error' = Some(last'.event.message)]_vars

\* C19: run-finish.  After a run-finished event the current assistant message,
\* if there is one, stands at its place with isStreaming false and its
\* content, tool calls, steps and ledger as before, every other entry is as it
\* was and no message is created; the refs are reset and runActive is false.
C19_RunFinished ==
  [][(nEvents' = nEvents + 1 /\ last'.event.type = "RUN_FINISHED") =>
       /\ Len(messages') = Len(messages)
       /\ currentMessageRef # Null =>
            /\ messages'[Place] = [Current EXCEPT !.isStreaming = FALSE]
            /\ \A a \in Reachable(<<Current>>) : heap'[a] = heap[a]
       /\ OthersKept(Place)
       /\ RefsReset'
       /\ ~runActive']_vars

\* A log that is run-started, one text-start, text-deltas, text-end and
\* run-finished.
TextOnlyRun(log) ==
  /\ Len(log) >= 4
  /\ log[1].type = "RUN_STARTED"
  /\ log[2].type = "TEXT_MESSAGE_START"
  /\ \A i \in 3..(Len(log) - 2) : log[i].type = "TEXT_MESSAGE_CONTENT"
  /\ log[Len(log) - 1].type = "TEXT_MESSAGE_END"
  /\ log[Len(log)].type = "RUN_FINISHED"

\* C20: text-only run.  When the events of the latest request are a
\* run-started, one text-start, text-deltas, a text-end and a run-finished,
\* the transcript is the transcript sendMessage left plus exactly one
\* assistant message, whose flattened content is the deltas concatenated,
\* whose isStreaming is false and whose tool-call and step lists are empty.
C20_TextOnlyRun ==
  requests # <<>> =>
    LET q == requests[Len(requests)]
    IN TextOnlyRun(q.log) =>
         /\ Len(messages) = Len(q.start.messages) + 1
         /\ SubSeq(messages, 1, Len(q.start.messages)) = q.start.messages
         /\ LET m == messages[Len(messages)]
            IN /\ m.role = "assistant"
               /\ m.content = DeltasOf(q.log)
               /\ ~m.isStreaming
               /\ m.toolCalls = <<>>
               /\ m.steps = <<>>

\* ------------------------------------------ claims on the end of a request
\* C21: cancellation is not an error.  When a request ends with an AbortError
\* the error flag, the transcript and every record are as before, so no
\* message receives an error payload; the error flag, null since sendMessage,
\* is null after it; and every event that reaches the reducer belongs to a
\* request that is still being read, so none of the cancelled request does.
C21_CancellationNotError ==
  /\ [](last.op = "abort" =>
          /\ error = Null
          /\ \A i \in requests[last.req].turn..Len(messages) :
               "error" \notin DOMAIN messages[i])
  /\ [][/\ last'.op = "abort" =>
             /\ error' = error
             /\ messages' = messages
             /\ heap' = heap
             /\ requests'[last'.req].pc = "ended"
        /\ last'.op = "event" => requests[last'.req].pc = "reading"]_vars

\* A request was cancelled after a text-start and a delta: its assistant
\* message is in the transcript, still marked as streaming.
C21_Witness ==
  /\ last.op = "abort"
  /\ requests[last.req].log = <<EvTextStart, EvTextContent(<<"A">>)>>
  /\ messages[Len(messages)].role = "assistant"
  /\ messages[Len(messages)].isStreaming
  /\ ~isStreaming

\* C22: transport failure.  When a request fails in the transport, at any
\* point of a run, the current assistant message (created at that moment if
\* there was none) stands at its place in the transcript with error
\* {title: "Request Failed", body: the failure's message} and isStreaming
\* false, its other fields and every other entry as before; the refs are
\* reset; runActive and isStreaming are false and the error flag is the
\* failure's message.
C22_TransportFailure ==
  [][last'.op = "failure" =>
       /\ Len(messages') = (IF currentMessageRef = Null THEN Len(messages) + 1
                            ELSE Len(messages))
       /\ messages'[Place] =
            Merge(Current, [isStreaming |-> FALSE,
                            error |-> [title |-> "Request Failed",
                                       body |-> "HTTP error"]])
       /\ OthersKept(Place)
       /\ RefsReset'
       /\ ~runActive' /\ ~isStreaming'
       /\ error' = Some("HTTP error")]_vars

\* ------------------------------------------------- claims on unknown events
\* The step delivers an event of a kind the reducers do not handle.
UnknownEvent ==
  /\ nEvents' = nEvents + 1
  /\ \/ last'.event.type \in UnknownTypes
     \/ last'.event.type = "CUSTOM" /\ last'.event.name # "step_update"

\* C23: unknown event kinds.  A state-snapshot, state-delta,
\* messages-snapshot or raw event, and a custom event whose name is not
\* step_update, change nothing: the transcript, the registries, the ledger,
\* the records and the flags are as before, and the request goes on being
\* read.
C23_UnknownIgnored ==
  [][UnknownEvent =>
       /\ UNCHANGED hookVars
       /\ requests'[last'.req].pc = "reading"]_vars

\* A custom event of another name arrived in the middle of a text segment,
\* and the delta that followed it was appended to the segment.
C23_Witness ==
  /\ Len(requests) = 1
  /\ requests[1].log = <<EvTextStart, EvTextContent(<<"A">>), EvCustomOther,
                         EvTextContent(<<"A">>)>>
  /\ messages[Len(messages)].content = <<"A", "A">>
  /\ stepsRef = <<>>

\* The events of the complete data records of the bytes, up to the first
\* [DONE] record.
RECURSIVE EventsUntilDone(_)
EventsUntilDone(byteLines) ==
  IF Len(byteLines) <= 1 \/ DoneLine(Head(byteLines)) THEN <<>>
  ELSE ReadChunk([hook |-> Hook, events |-> <<>>, pending |-> <<>>,
                  buffer |-> <<>>], Head(byteLines) \o <<"\n">>, now).events
       \o EventsUntilDone(Tail(byteLines))

\* C25: end of the event sequence.  The sequence of events of a response is
\* ended by a data: [DONE] record: the events dispatched are those of the
\* records before the first [DONE], and no record that follows it is
\* dispatched.
C25_NothingAfterDone ==
  \A r \in 1..Len(requests) :
    variant = "fetch" =>
      requests[r].log = EventsUntilDone(Split(Consumed(requests[r]), "\n"))

\* The bytes up to and including the last newline.
RECURSIVE CompleteLines(_)
CompleteLines(bytes) ==
  IF bytes = <<>> \/ bytes[Len(bytes)] = "\n" THEN bytes
  ELSE CompleteLines(SubSeq(bytes, 1, Len(bytes) - 1))

\* C39: stream close with a buffered remainder.  Only newline-terminated
\* records produce events: the events dispatched are those of the bytes up to
\* the last newline, and when the stream closes, a final record without a
\* newline stays in the buffer; the close parses nothing, dispatches nothing
\* and changes nothing but isStreaming.
C39_RemainderNotDispatched ==
  /\ [](\A r \in 1..Len(requests) :
          variant = "fetch" =>
            LET q == requests[r]
                whole == ReadChunk(Fresh(q), CompleteLines(Consumed(q)), q.at)
            IN /\ q.log = whole.events
               /\ messages = whole.hook.messages
               /\ heap = whole.hook.heap)
  /\ [][last'.op = "close" =>
          /\ requests'[last'.req].log = requests[last'.req].log
          /\ requests'[last'.req].buffer = requests[last'.req].buffer
          /\ UNCHANGED <<messages, heap, runActive, error, currentMessageRef>>]_vars

\* The stream closed after a text-start record and a run-finished record
\* with no newline: the text-start is the only event, the run-finished
\* record is in the buffer and the run is not finished.
C39_Witness ==
  /\ last.op = "close"
  /\ requests[1].body = RecStart \o RecOpen
  /\ requests[1].log = <<EvTextStart>>
  /\ requests[1].buffer = RecOpen
  /\ currentMessageRef # Null
  /\ messages[Len(messages)].isStreaming

\* C26: exclusive ownership of the per-run state.  At any time at most one
\* request is being read, so a second sendMessage does not begin while an
\* earlier request's stream is still open, and the events of two requests
\* never reach the same current message, registries and ledger in turn.
C26_ExclusiveOwnership == Cardinality(Reading) <= 1

\* ----------------------------------------------- claims on request building
\* C27: request building.  The messages of each request are the transcript as
\* it stood when sendMessage was called, in order, followed by the new user
\* message, each with exactly the fields id, role and content and with the
\* values the transcript had; the new user message is in the transcript, after
\* those messages, before any event of the response is applied.
C27_RequestMessages ==
  \A r \in 1..Len(requests) :
    LET q == requests[r]
        before == SubSeq(q.start.messages, 1, q.turn - 1)
    IN /\ Len(q.sent) = q.turn
       /\ \A i \in 1..Len(q.sent) : DOMAIN q.sent[i] = {"id", "role", "content"}
       /\ \A i \in 1..(q.turn - 1) :
            /\ q.sent[i].id = before[i].id
            /\ q.sent[i].role = before[i].role
            /\ q.sent[i].content = before[i].content
       /\ q.sent[q.turn] = userMessage(q.at)
       /\ Len(q.start.messages) = q.turn
       /\ q.start.messages[q.turn] = userMessage(q.at)
       /\ (q.log = <<>> /\ last.op = "sendMessage" /\ r = Len(requests)) =>
            messages = Append(before, userMessage(q.at))

\* The second request of a conversation was sent: its messages are the first
\* user message, the assistant's answer with its text and the new user
\* message.
C27_Witness ==
  /\ Len(requests) = 2
  /\ Len(requests[2].sent) = 3
  /\ requests[2].sent[2] = [id |-> <<"assistant", 0>>, role |-> "assistant",
                            content |-> <<"A">>]
  /\ requests[2].sent[3].role = "user"
  /\ last.op = "sendMessage"

\* ---------------------------------------------------- claims on step_update
\* The step delivers a step_update custom event.
StepUpdateEvent ==
  /\ nEvents' = nEvents + 1
  /\ last'.event.type = "CUSTOM"
  /\ last'.event.name = "step_update"

\* C28: step_update.  The status in_progress is taken as in-progress.  When
\* the registry has no step under the event's stepName, an assistant message
\* is ensured, the steps marker is appended to the ledger unless the message
\* has one, and a pending step of that name is created before the update;
\* when it has one, the registry and the ledger are kept.  The status and the
\* activeForm of the event are then written only if the priority of the new
\* status is at least that of the step's status; otherwise the step is as it
\* was.
C28_StepUpdate ==
  [][StepUpdateEvent =>
       LET v == last'.event.value
           old == MapGet(heap, stepsRef, v.stepName)
           new == MapGet(heap', stepsRef', v.stepName)
           status == IF v.status = "in_progress" THEN "in-progress" ELSE v.status
           current == IF old = 0 THEN "pending" ELSE heap[old].status
       IN /\ new # 0
          /\ heap'[new].id = v.stepName /\ heap'[new].name = v.stepName
          /\ heap'[new].status # "in_progress"
          /\ old = 0 =>
               /\ currentMessageRef' # Null
               /\ currentMessageRef # Null =>
                    /\ Val(currentMessageRef').id = Val(currentMessageRef).id
                    /\ Len(messages') = Len(messages)
               /\ currentMessageRef = Null => Len(messages') = Len(messages) + 1
               /\ hasStepsBlockRef'
               /\ Len(stepsRef') = Len(stepsRef) + 1
               /\ SubSeq(stepsRef', 1, Len(stepsRef)) = stepsRef
               /\ IF hasStepsBlockRef
                  THEN contentBlocksRef' = contentBlocksRef
                  ELSE /\ Len(contentBlocksRef') = Len(contentBlocksRef) + 1
                       /\ heap'[contentBlocksRef'[Len(contentBlocksRef')]].type = "steps"
          /\ old # 0 =>
               /\ new = old
               /\ stepsRef' = stepsRef
               /\ contentBlocksRef' = contentBlocksRef
               /\ Len(messages') = Len(messages)
          /\ IF statusPriority(status) >= statusPriority(current)
             THEN /\ heap'[new].status = status
                  /\ heap'[new].activeForm =
                       (IF v.activeForm = Undefined THEN Undefined ELSE v.activeForm)
             ELSE heap'[new] = heap[old]]_vars

\* An in_progress update with an activeForm arrived for a step the registry
\* did not have while another step was registered: the step is in-progress
\* and the ledger holds one steps marker.
C28_Witness ==
  /\ Delivered("CUSTOM")
  /\ last.event.value.status = "in_progress"
  /\ last.event.value.activeForm = "Working"
  /\ Len(stepsRef) = 2
  /\ heap[stepsRef[2]].id = last.event.value.stepName
  /\ heap[stepsRef[2]].status = "in-progress"
  /\ heap[stepsRef[2]].activeForm = "Working"
  /\ Cardinality({i \in 1..Len(contentBlocksRef) :
                    heap[contentBlocksRef[i]].type = "steps"}) = 1

\* ------------------------------------------------------- claims on text-end
\* The request of the step's event has had a text-end and no end of run since.
AfterTextEnd ==
  LET log == requests[last'.req].log
  IN \E i \in 1..Len(log) :
       /\ log[i].type = "TEXT_MESSAGE_END"
       /\ \A j \in (i + 1)..Len(log) : log[j].type # "RUN_FINISHED"

FetchTextStart ==
  /\ variant = "fetch"
  /\ nEvents' = nEvents + 1
  /\ last'.event.type = "TEXT_MESSAGE_START"

RejectedStepUpdate ==
  /\ nEvents' = nEvents + 1
  /\ LET e == last'.event
     IN \/ /\ e.type = "STEP_FINISHED"
           /\ MapGet(heap, stepsRef, StepKey(e)) # 0
           /\ statusPriority("done") <
                statusPriority(heap[MapGet(heap, stepsRef, StepKey(e))].status)
        \/ /\ e.type = "CUSTOM" /\ e.name = "step_update"
           /\ MapGet(heap, stepsRef, e.value.stepName) # 0
           /\ statusPriority(IF e.value.status = "in_progress" THEN "in-progress"
                             ELSE e.value.status) <
                statusPriority(heap[MapGet(heap, stepsRef, e.value.stepName)].status)

\* C31: a rejected step update changes nothing.  When a step-finish or a
\* step_update arrives whose priority is lower than the step's current one,
\* the step's status and activeForm, the step registry, the ledger, the
\* published transcript and the flags are as before.
C31_RejectedUpdateNoOp ==
  [][RejectedStepUpdate => UNCHANGED hookVars]_vars

\* A step that is done was sent an in_progress update with an activeForm and
\* is still done, without activeForm.
C31_Witness ==
  /\ Delivered("CUSTOM")
  /\ last.event.value.status = "in_progress"
  /\ last.event.value.activeForm = "Working"
  /\ \E i \in 1..Len(stepsRef) :
       /\ heap[stepsRef[i]].id = last.event.value.stepName
       /\ heap[stepsRef[i]].status = "done"
       /\ heap[stepsRef[i]].activeForm = Undefined

\* ---------------------------------------------- claims on the step registry
\* C32: one record per step in the fetch reducer.  A step-start, step-finish
\* or step_update about a step that has a record (a record of that stepName
\* is in the registry) resolves to that record: the registry does not grow.
C32_OneRecordPerStep ==
  [][(/\ variant = "fetch"
      /\ nEvents' = nEvents + 1
      /\ \/ last'.event.type \in {"STEP_STARTED", "STEP_FINISHED"}
            /\ \E i \in 1..Len(stepsRef) :
                 /\ heap[stepsRef[i]].name = last'.event.stepName
                 /\ heap[stepsRef[i]].id = StepKey(last'.event)
         \/ /\ last'.event.type = "CUSTOM" /\ last'.event.name = "step_update"
            /\ \E i \in 1..Len(stepsRef) :
                 heap[stepsRef[i]].name = last'.event.value.stepName)
     => Len(stepsRef') = Len(stepsRef)]_vars

\* ------------------------------------------------------ claims on clearMessages
IsSuffix(a, b) == Len(a) <= Len(b) /\ SubSeq(b, Len(b) - Len(a) + 1, Len(b)) = a

\* C33: clearMessages.  In any state, while a run is streaming included,
\* clearMessages empties the transcript, sets the error flag to null, drops
\* the current message and empties the tool and step registries, and leaves
\* isStreaming and runActive as they are.  Content accumulated before the
\* clear does not come back: an event that creates a message leaves in the
\* message, the registries and the ledger only objects it has created itself,
\* and the flattened content of a message is made of the latest deltas.
C33_ClearMessages ==
  /\ [][/\ last'.op = "clearMessages" =>
             /\ messages' = <<>>
             /\ error' = Null
             /\ currentMessageRef' = Null
             /\ toolCallsRef' = <<>>
             /\ stepsRef' = <<>>
             /\ UNCHANGED <<isStreaming, runActive>>
        /\ (nEvents' = nEvents + 1 /\ currentMessageRef = Null
              /\ currentMessageRef' # Null) =>
             /\ \A a \in Reachable(currentMessageRef') \cup Range(contentBlocksRef')
                           \cup Range(toolCallsRef') \cup Range(stepsRef') :
                  a > Len(heap)
             /\ Val(currentMessageRef').content =
                  (IF last'.event.type = "TEXT_MESSAGE_CONTENT"
                   THEN last'.event.delta ELSE <<>>)]_vars
  /\ [](\A r \in 1..Len(requests) : \A i \in Assistants :
           IsSuffix(messages[i].content, DeltasOf(requests[r].log)))

\* The chat was cleared while a text segment holding "A" was open, and a
\* later delta "B" made a message of its own: the transcript is that message
\* alone, with "B".
C33_Witness ==
  /\ Len(messages) = 1
  /\ messages[1].role = "assistant"
  /\ messages[1].content = <<"B">>
  /\ Len(requests) = 1
  /\ requests[1].log = <<EvTextStart, EvTextContent(<<"A">>), EvTextContent(<<"B">>)>>
  /\ isStreaming

\* ------------------------------------------------------ claims on message ids
\* C34: message ids are unique in the transcript in every reachable state,
\* the clock standing still between two events included: an assistant message
\* created right after a run-error or a run-finish does not share its id with
\* an earlier message.
C34_UniqueMessageIds ==
  \A i, j \in 1..Len(messages) : i # j => messages[i].id # messages[j].id

\* ----------------------------------------------------- claims on text blocks
\* C35: each text-delta goes to the text block opened by the latest
\* text-start of the current message and to no other.  On a text-delta that
\* arrives while a segment is open, the last text block of the ledger grows
\* by the delta and every other block is as it was; the text blocks of a
\* ledger have distinct ids, also when two text-starts have the same clock
\* value.
C35_DeltaToLatestBlock ==
  /\ [](\A i, j \in 1..Len(contentBlocksRef) :
          (i # j /\ heap[contentBlocksRef[i]].type = "text"
                 /\ heap[contentBlocksRef[j]].type = "text")
            => heap[contentBlocksRef[i]].id # heap[contentBlocksRef[j]].id)
  /\ [][(/\ nEvents' = nEvents + 1
         /\ last'.event.type = "TEXT_MESSAGE_CONTENT"
         /\ currentMessageRef # Null
         /\ currentTextBlockIdRef # Null) =>
          LET texts == {i \in 1..Len(contentBlocksRef) :
                          heap[contentBlocksRef[i]].type = "text"}
              latest == CHOOSE i \in texts : \A j \in texts : j <= i
          IN /\ texts # {}
             /\ heap'[contentBlocksRef[latest]].content =
                  heap[contentBlocksRef[latest]].content \o last'.event.delta
             /\ \A i \in 1..Len(contentBlocksRef) :
                  i # latest => heap'[contentBlocksRef[i]] = heap[contentBlocksRef[i]]]_vars

\* ------------------------------------------------------- claims on markers
\* C36: marker presence.  In every reachable state an assistant message whose
\* steps list is not empty has a steps marker in its contentBlocks, and one
\* whose toolCalls list is not empty has a tools marker, whichever event
\* created the record and also after clearMessages during a run.
C36_MarkerPresence ==
  \A i \in Assistants :
    /\ messages[i].steps # <<>> => Markers(heap, messages[i], "steps") >= 1
    /\ messages[i].toolCalls # <<>> => Markers(heap, messages[i], "tools") >= 1

\* The chat was cleared during a run after a step and a tool call; a tool
\* call and an out-of-order step_update that followed made a message of
\* their own, which has both markers.
C36_Witness ==
  /\ Len(messages) = 1
  /\ messages[1].role = "assistant"
  /\ Len(requests) = 1
  /\ requests[1].log = <<EvStepStarted("s1", Undefined), EvToolStart("t1"),
                         EvToolStart("t1"),
                         EvStepUpdate("s1", "in_progress", "Working")>>
  /\ Len(messages[1].steps) = 1 /\ Len(messages[1].toolCalls) = 1
  /\ Markers(heap, messages[1], "steps") = 1
  /\ Markers(heap, messages[1], "tools") = 1

\* ------------------------------------------------ claims on published state
\* The transcript entry of the current message: the entry ensureAssistantMessage
\* appended for it, the last one with its id.
CurrentEntry ==
  messages[CHOOSE i \in 1..Len(messages) :
             /\ messages[i].id = Val(currentMessageRef).id
             /\ \A j \in (i + 1)..Len(messages) : messages[j].id # messages[i].id]

\* C37: published state tracks accumulated state.  After every event, when
\* there is a current assistant message, its transcript entry has toolCalls
\* equal to the tool registry's records in insertion order, steps equal to the
\* step registry's records and contentBlocks equal to the ledger.
C37_PublishedTracksRefs ==
  (last.op = "event" /\ currentMessageRef # Null) =>
    /\ \E i \in 1..Len(messages) : messages[i].id = Val(currentMessageRef).id
    /\ CurrentEntry.toolCalls = toolCallsRef
    /\ CurrentEntry.steps = stepsRef
    /\ CurrentEntry.contentBlocks = contentBlocksRef

\* C38: text sync for arbitrary event sequences.  In every reachable state
\* each assistant message's flattened content equals the concatenation of its
\* text blocks' content in ledger order, also when a text-delta arrives while
\* no text segment is open.
C38_TextSyncAlways ==
  \A i \in Assistants :
    messages[i].content = ConcatText(heap, messages[i].contentBlocks)

====
